---- MODULE Spec2Model ----
(***************************************************************************)
(* A model of scripts/translations/main.go: the command dispatch of main,  *)
(* the configuration reader, the summary reporter, the concurrent          *)
(* downloader (download / downloadWorker), the unused-label scanner and    *)
(* the upload of the base file.                                            *)
(*                                                                         *)
(* Strings whose order or content matters (language codes, text labels,    *)
(* file contents, file names) are sequences of byte values, as Go compares *)
(* and searches them; the other strings are TLA+ strings.                  *)
(***************************************************************************)
EXTENDS Integers, Sequences, FiniteSets, TLC

----------------------------------------------------------------------------
(* Bounds of the model.                                                    *)

\* Largest number of languages a configuration lists.
MaxLangs == 2
\* Largest value of the -n flag that is tried.
MaxWorkers == 2
\* Largest number of entries the walk of srcDir visits.
MaxWalk == 2
\* Largest number of text labels in a locale file.
MaxLabels == 3

----------------------------------------------------------------------------
(* Byte strings.                                                           *)

B_en == <<101, 110>>
B_de == <<100, 101>>
B_ru == <<114, 117>>
B_zh == <<122, 104>>

\* ".json"
JsonExt == <<46, 106, 115, 111, 110>>
\* ".js"
JsExt == <<46, 106, 115>>
\* ".md"
MdExt == <<46, 109, 100>>

\* The language codes that occur in configurations.
LangCodes == {B_ru, B_en, B_de}

\* Go's < on strings: bytewise lexicographic order.
RECURSIVE StrLess(_, _)
StrLess(a, b) ==
    IF a = <<>> THEN b # <<>>
    ELSE IF b = <<>> THEN FALSE
    ELSE IF a[1] # b[1] THEN a[1] < b[1]
    ELSE StrLess(Tail(a), Tail(b))

\* bytes.Contains / strings.Contains: sub occurs in s as a contiguous run.
Contains(s, sub) ==
    \E i \in 0..(Len(s) - Len(sub)) : SubSeq(s, i + 1, i + Len(sub)) = sub

\* strings.HasPrefix.
HasPrefix(s, p) == Len(p) <= Len(s) /\ SubSeq(s, 1, Len(p)) = p

\* slices.Sort(maps.Keys(m)): the keys of a map in ascending order.
RECURSIVE SortedKeys(_)
SortedKeys(S) ==
    IF S = {} THEN <<>>
    ELSE LET m == CHOOSE x \in S : \A y \in S \ {x} : StrLess(x, y)
         IN  <<m>> \o SortedKeys(S \ {m})

----------------------------------------------------------------------------
(* Program constants.                                                      *)

twoskyConfFile == "./.twosky.json"
\* "./client/src/__locales"
localesDir ==
    <<46, 47, 99, 108, 105, 101, 110, 116, 47, 115, 114, 99, 47, 95, 95, 108,
      111, 99, 97, 108, 101, 115>>
\* "./client/src"
srcDir == <<46, 47, 99, 108, 105, 101, 110, 116, 47, 115, 114, 99>>
\* "en.json"
defaultBaseFile == <<101, 110, 46, 106, 115, 111, 110>>
defaultProjectID == "home"
twoskyURI == "https://twosky.int.agrd.dev/api/v1"
readLimit == 1048576
StatusOK == 200

\* filepath.Clean on the paths of the program: a leading "./" is dropped.
Clean(p) == IF HasPrefix(p, <<46, 47>>) THEN SubSeq(p, 3, Len(p)) ELSE p

\* filepath.Join of a directory and a name: joined with "/" and cleaned.
Join(dir, name) == Clean(dir \o <<47>> \o name)

\* filepath.Join(localesDir, name): a file of the locales directory.
LocalePath(name) == Join(localesDir, name)

\* filepath.Ext: the suffix of the final path element from its last dot,
\* empty if it has none.
RECURSIVE ExtFrom(_, _)
ExtFrom(p, i) ==
    IF i < 1 \/ p[i] = 47 THEN <<>>
    ELSE IF p[i] = 46 THEN SubSeq(p, i, Len(p))
    ELSE ExtFrom(p, i - 1)

Ext(p) == ExtFrom(p, Len(p))

basePath == LocalePath(defaultBaseFile)

----------------------------------------------------------------------------
(* URLs.                                                                   *)

NoQuery == [k \in {} |-> ""]

\* Values of TWOSKY_URI that are tried: unset, a URL with a query, a string
\* url.Parse rejects.
customURI == "https://example.org/api?token=t"
badURI == ":bad"

\* The environments tried, as <<TWOSKY_URI, TWOSKY_PROJECT_ID>>: both unset,
\* both set, and a TWOSKY_URI that does not parse.
Envs == {<<"", "">>, <<customURI, "proj">>, <<badURI, "">>}

\* url.Parse.
ParseURL(s) ==
    IF s = badURI THEN [err |-> "parse"]
    ELSE [err |-> "",
          url |-> [host |-> s, path |-> <<>>,
                   query |-> IF s = customURI THEN [k \in {"token"} |-> "t"]
                             ELSE NoQuery]]

\* (*url.URL).JoinPath.
JoinPath(u, elem) == [u EXCEPT !.path = Append(@, elem)]

\* url.Values.Set.
QuerySet(q, k, v) == [x \in DOMAIN q \cup {k} |-> IF x = k THEN v ELSE q[x]]

\* url.Values.Get.
QueryGet(q, k) == IF k \in DOMAIN q THEN q[k] ELSE <<>>

\* translationURL.
translationURL(oldURL, baseFile, project, lang) ==
    [oldURL EXCEPT !.query =
        QuerySet(QuerySet(QuerySet(QuerySet(@, "format", "json"),
                                   "filename", baseFile),
                          "project", project),
                 "language", lang)]

----------------------------------------------------------------------------
(* Command lines, environment and configuration file.                      *)

\* The decimal numerals strconv parses; Numerals[i] denotes i - 2.
Numerals == <<"-1", "0", "1", "2", "3", "4", "5", "6">>

\* strconv.ParseInt as flag.IntVar uses it.
ParseInt(s) ==
    IF \E i \in DOMAIN Numerals : Numerals[i] = s
    THEN [err |-> "", val |-> (CHOOSE i \in DOMAIN Numerals : Numerals[i] = s) - 2]
    ELSE [err |-> "parse error"]

\* os.Args[1:] as tried: no command, each command, an unknown command, and
\* download with the -n flag set to -1 .. MaxWorkers, to a non-number, and
\* with an undefined flag.
ArgLists ==
    {<<>>, <<"help">>, <<"summary">>, <<"download">>, <<"unused">>,
     <<"upload">>, <<"bogus">>, <<"download", "-x">>, <<"download", "-n", "many">>}
    \cup {<<"download", "-n", Numerals[i]>> : i \in 1..(MaxWorkers + 2)}

\* Display names of a language in the configuration.
LangNames == {"", "Lang"}

\* The values of the "languages" object: every map from at most MaxLangs
\* codes to display names.
LangMaps ==
    UNION {[S -> LangNames] : S \in {T \in SUBSET LangCodes : Cardinality(T) <= MaxLangs}}

AllNamed(l) == [c \in l |-> "Lang"]

\* The contents of twoskyConfFile as tried: an unreadable file, a file that
\* is not JSON, the empty array, every one-element array, and two arrays of
\* two elements.
ConfFiles ==
    {[kind |-> "missing"], [kind |-> "badjson"], [kind |-> "array", tsc |-> <<>>]}
    \cup {[kind |-> "array",
           tsc |-> <<[Languages |-> l, BaseLangcode |-> B_en]>>] : l \in LangMaps}
    \cup {[kind |-> "array",
           tsc |-> <<[Languages |-> AllNamed({B_ru}), BaseLangcode |-> B_ru],
                     [Languages |-> [c \in {B_en} |-> ""], BaseLangcode |-> B_en]>>],
          [kind |-> "array",
           tsc |-> <<[Languages |-> [c \in {B_en} |-> ""], BaseLangcode |-> B_en],
                     [Languages |-> AllNamed({B_ru}), BaseLangcode |-> B_en]>>]}

\* readTwoskyConf without the loop over the display names.
readTwoskyConfNoNames(f) ==
    IF f.kind = "missing" THEN [err |-> "read file"]
    ELSE IF f.kind = "badjson" THEN [err |-> "unmarshalling"]
    ELSE IF Len(f.tsc) = 0 THEN [err |-> "is empty"]
    ELSE [err |-> "", conf |-> f.tsc[1]]

\* readTwoskyConf on the content f of twoskyConfFile: the configuration or
\* the error.  An existing language with an empty display name is an error.
readTwoskyConf(f) ==
    IF f.kind = "missing" THEN [err |-> "read file"]
    ELSE IF f.kind = "badjson" THEN [err |-> "unmarshalling"]
    ELSE IF Len(f.tsc) = 0 THEN [err |-> "is empty"]
    ELSE LET conf == f.tsc[1]
         IN  IF \E c \in DOMAIN conf.Languages : conf.Languages[c] = ""
             THEN [err |-> "language is empty"]
             ELSE [err |-> "", conf |-> conf]

----------------------------------------------------------------------------
(* The translation service.                                                *)

\* What the service may answer to a GET: no answer (transport error), or a
\* status and a body of some size.
Responses(u) ==
    {[neterr |-> TRUE, status |-> 0, size |-> 0, body |-> <<>>]}
    \cup {[neterr |-> FALSE, status |-> st, size |-> sz,
           body |-> <<"body of", QueryGet(u.query, "language")>>] :
            st \in {StatusOK, 404}, sz \in {16, readLimit + 1}}

\* aghio.LimitReader followed by io.ReadAll: reading more than the limit
\* fails.
LimitRead(resp, limit) ==
    IF resp.size > limit THEN [err |-> "reading all"]
    ELSE [err |-> "", data |-> resp.body]

\* getTranslation on the service's answer.
getTranslation(resp) ==
    IF resp.neterr THEN [err |-> "requesting"]
    ELSE IF resp.status # StatusOK THEN [err |-> "status code"]
    ELSE LimitRead(resp, readLimit)

----------------------------------------------------------------------------
(* State.                                                                  *)

VARIABLES
    pc,         \* where the main goroutine is
    args,       \* os.Args[1:]
    envURI,     \* TWOSKY_URI
    envProject, \* TWOSKY_PROJECT_ID
    confFile,   \* the content of twoskyConfFile
    exitCode,   \* -1 while the process runs, then its exit code (2: panic)
    fatal,      \* the error a panic reports, "" if none
    stdout,     \* the lines printed
    logs,       \* the messages logged
    fs,         \* the files read or written so far: path -> content
    uri,        \* main's uri
    projectID,  \* main's projectID
    langs,      \* the languages passed to summary and download
    numWorker,  \* download's numWorker
    spawned,    \* download's i: workers started
    wg,         \* the WaitGroup counter
    uriCh,      \* the buffered elements of uriCh
    chCap,      \* the capacity of uriCh
    closed,     \* whether uriCh is closed
    todo,       \* the languages download's range loop has yet to visit
    wk,         \* the workers: position, uri held, data held
    recvBy,     \* per language code, the workers that received its task
    fetched,    \* per language code, the number of calls of getTranslation
    ran,        \* the command main has called, "" if none
    baseLang,   \* the base language passed to upload
    posted,     \* the requests upload has posted
    baseLoc,    \* summary's and unused's baseLoc
    keys,       \* summary's sorted keys
    kidx,       \* summary's position in keys
    walked,     \* the paths filepath.Walk has visited
    fileNames,  \* unused's fileNames
    loc,        \* removeUnused's loc
    fidx,       \* removeUnused's position in fileNames
    buf,        \* removeUnused's buf
    iter        \* the keys the range over loc has yet to produce

mainVars == <<pc, args, ran, envURI, envProject, confFile, exitCode, fatal, uri,
              projectID, langs>>
dlVars == <<numWorker, spawned, wg, uriCh, chCap, closed, todo, wk, recvBy,
            fetched>>
sumVars == <<keys, kidx>>
unVars == <<walked, fileNames, loc, fidx, buf, iter>>
cmdVars == <<baseLang, posted, baseLoc, sumVars, unVars>>
vars == <<mainVars, dlVars, cmdVars, stdout, logs, fs>>

Workers == 1..MaxWorkers

NoURL == [host |-> "", path |-> <<>>, query |-> NoQuery]
NoFiles == [p \in {} |-> <<>>]
NoLocales == [k \in {} |-> ""]
IdleWorker == [pc |-> "idle", uri |-> NoURL, data |-> <<>>]

Init ==
    /\ pc = "main"
    /\ args \in ArgLists
    /\ \E e \in Envs : envURI = e[1] /\ envProject = e[2]
    /\ confFile \in ConfFiles
    /\ exitCode = -1
    /\ fatal = ""
    /\ stdout = <<>>
    /\ logs = {}
    /\ fs = NoFiles
    /\ uri = NoURL
    /\ projectID = ""
    /\ langs = NoQuery
    /\ numWorker = 0
    /\ spawned = 0
    /\ wg = 0
    /\ uriCh = <<>>
    /\ chCap = 0
    /\ closed = FALSE
    /\ todo = {}
    /\ wk = [w \in Workers |-> IdleWorker]
    /\ recvBy = [c \in LangCodes |-> <<>>]
    /\ fetched = [c \in LangCodes |-> 0]
    /\ ran = ""
    /\ baseLang = <<>>
    /\ posted = <<>>
    /\ baseLoc = NoLocales
    /\ keys = <<>>
    /\ kidx = 0
    /\ walked = {}
    /\ fileNames = <<>>
    /\ loc = NoLocales
    /\ fidx = 0
    /\ buf = <<>>
    /\ iter = {}

\* fs with the content of one more file recorded.
FsPut(path, content) ==
    [p \in DOMAIN fs \cup {path} |-> IF p = path THEN content ELSE fs[p]]

----------------------------------------------------------------------------
(* Leaving the process.                                                    *)

\* usage that exits with 0 whatever addStr is.
usageExitZero(addStr) ==
    /\ stdout' = Append(stdout, [usage |-> addStr])
    /\ exitCode' = 0
    /\ pc' = "exited"

\* usage: print addStr (if any) and the usage text, exit with 1 if addStr is
\* not empty and with 0 otherwise.
usage(addStr) ==
    /\ stdout' = Append(stdout, [usage |-> addStr])
    /\ exitCode' = IF addStr # "" THEN 1 ELSE 0
    /\ pc' = "exited"

\* check(err) with a non-nil error: panic.
Panic(err) ==
    /\ fatal' = err
    /\ exitCode' = 2
    /\ pc' = "exited"

\* main returns.
Return ==
    /\ exitCode' = 0
    /\ pc' = "exited"

----------------------------------------------------------------------------
(* main.                                                                   *)

\* main, lines 50-52: no command.
MainNoArgs ==
    /\ pc = "main"
    /\ Len(args) = 0
    /\ usage("need a command")
    /\ UNCHANGED <<args, ran, envURI, envProject, confFile, fatal, uri, projectID,
                   langs, dlVars, logs, fs>>
    /\ UNCHANGED cmdVars

\* main, lines 54-56: help.
MainHelp ==
    /\ pc = "main"
    /\ Len(args) > 0
    /\ args[1] = "help"
    /\ usage("")
    /\ UNCHANGED <<args, ran, envURI, envProject, confFile, fatal, uri, projectID,
                   langs, dlVars, logs, fs>>
    /\ UNCHANGED cmdVars

\* main, lines 58-69: the base URL and the project.
MainEnv ==
    /\ pc = "main"
    /\ Len(args) > 0
    /\ args[1] # "help"
    /\ LET uriStr == IF envURI = "" THEN twoskyURI ELSE envURI
           r == ParseURL(uriStr)
       IN  IF r.err # ""
           THEN /\ Panic(r.err)
                /\ UNCHANGED <<uri, projectID>>
           ELSE /\ uri' = r.url
                /\ projectID' = IF envProject = "" THEN defaultProjectID
                                ELSE envProject
                /\ pc' = "conf"
                /\ UNCHANGED <<exitCode, fatal>>
    /\ UNCHANGED <<args, ran, envURI, envProject, confFile, langs, dlVars, stdout,
                   logs, fs>>
    /\ UNCHANGED cmdVars

\* The command a first argument selects, and where it starts.
Commands == {"summary", "download", "unused", "upload"}

\* main, lines 71-89: the configuration and the dispatch.
MainConf ==
    /\ pc = "conf"
    /\ LET r == readTwoskyConf(confFile)
       IN  IF r.err # ""
           THEN /\ Panic(r.err)
                /\ UNCHANGED <<langs, baseLang, stdout, ran>>
           ELSE IF args[1] \in Commands
           THEN /\ pc' = args[1]
                /\ ran' = args[1]
                /\ langs' = IF args[1] \in {"summary", "download"}
                            THEN r.conf.Languages ELSE langs
                /\ baseLang' = IF args[1] = "upload"
                               THEN r.conf.BaseLangcode ELSE baseLang
                /\ UNCHANGED <<exitCode, fatal, stdout>>
           ELSE /\ usage("unknown command")
                /\ UNCHANGED <<langs, baseLang, fatal, ran>>
    /\ UNCHANGED <<args, envURI, envProject, confFile, uri, projectID, dlVars,
                   posted, baseLoc, sumVars, unVars, logs, fs>>

----------------------------------------------------------------------------
(* download.                                                               *)

\* flagSet.Parse(os.Args[2:]) with the one flag -n, an int of default 1.
ParseFlags(a) ==
    IF Len(a) = 0 THEN [err |-> "", n |-> 1]
    ELSE IF a[1] # "-n" THEN [err |-> "flag provided but not defined"]
    ELSE IF Len(a) < 2 THEN [err |-> "flag needs an argument"]
    ELSE LET r == ParseInt(a[2])
         IN  IF r.err # "" THEN [err |-> "invalid value"]
             ELSE [err |-> "", n |-> r.val]

\* make(chan *url.URL, len(langs)) with one slot too few.
ChanCapShort(l) == IF Cardinality(DOMAIN l) > 0 THEN Cardinality(DOMAIN l) - 1 ELSE 0

\* The capacity of uriCh: make(chan *url.URL, len(langs)).
ChanCap(l) == Cardinality(DOMAIN l)

\* A count is refused only if it is negative.
NegativeCount(n) == n < 0

\* download, line 237: the count must be positive.
BadCount(n) == n < 1

\* download, lines 223-248: the flags, the worker count, the channel.  A
\* flag error calls flagSet.Usage, which exits.
DownloadStart ==
    /\ pc = "download"
    /\ LET f == ParseFlags(Tail(args))
       IN  IF f.err # ""
           THEN /\ usage("download command error")
                /\ UNCHANGED <<numWorker, chCap, todo>>
           ELSE IF BadCount(f.n)
           THEN /\ usage("count must be positive")
                /\ numWorker' = f.n
                /\ UNCHANGED <<chCap, todo>>
           ELSE /\ numWorker' = f.n
                /\ chCap' = ChanCap(langs)
                /\ todo' = DOMAIN langs
                /\ pc' = "spawn"
                /\ UNCHANGED <<exitCode, stdout>>
    /\ UNCHANGED <<args, ran, envURI, envProject, confFile, fatal, uri, projectID,
                   langs, spawned, wg, uriCh, closed, wk, recvBy, logs, fs>>
    /\ UNCHANGED cmdVars
    /\ UNCHANGED fetched

\* download, lines 250-253: wg.Add(1) and the start of one worker.
DownloadSpawn ==
    /\ pc = "spawn"
    /\ spawned < numWorker
    /\ wg' = wg + 1
    /\ wk' = [wk EXCEPT ![spawned + 1].pc = "recv"]
    /\ spawned' = spawned + 1
    /\ pc' = IF spawned + 1 < numWorker THEN "spawn" ELSE "enqueue"
    /\ UNCHANGED <<args, ran, envURI, envProject, confFile, exitCode, fatal, uri,
                   projectID, langs, numWorker, uriCh, chCap, closed, todo,
                   recvBy, stdout, logs, fs>>
    /\ UNCHANGED cmdVars
    /\ UNCHANGED fetched

\* download, lines 255-259: one iteration of the range over langs, in any
\* order; the send blocks while the buffer is full.
DownloadEnqueue ==
    /\ pc = "enqueue"
    /\ \E lang \in todo :
        /\ Len(uriCh) < chCap
        /\ uriCh' = Append(uriCh, translationURL(JoinPath(uri, "download"),
                                                 defaultBaseFile, projectID, lang))
        /\ todo' = todo \ {lang}
    /\ UNCHANGED <<mainVars, numWorker, spawned, wg, chCap, closed, wk, recvBy,
                   stdout, logs, fs>>
    /\ UNCHANGED cmdVars
    /\ UNCHANGED fetched

\* download, line 261: close(uriCh) after the loop.
DownloadClose ==
    /\ pc = "enqueue"
    /\ todo = {}
    /\ closed' = TRUE
    /\ pc' = "wait"
    /\ UNCHANGED <<args, ran, envURI, envProject, confFile, exitCode, fatal, uri,
                   projectID, langs, numWorker, spawned, wg, uriCh, chCap, todo,
                   wk, recvBy, stdout, logs, fs>>
    /\ UNCHANGED cmdVars
    /\ UNCHANGED fetched

\* wg.Wait() that returns at once.
NoWait(counter) == TRUE

\* wg.Wait(): blocks until the counter is zero.
WaitOver(counter) == counter = 0

\* download, lines 262-264 and main, lines 79-80: wg.Wait() returns once the
\* counter is zero, download returns nil and so does main.
DownloadWait ==
    /\ pc = "wait"
    /\ WaitOver(wg)
    /\ Return
    /\ UNCHANGED <<args, ran, envURI, envProject, confFile, fatal, uri, projectID,
                   langs, dlVars, stdout, logs, fs>>
    /\ UNCHANGED cmdVars

----------------------------------------------------------------------------
(* downloadWorker.                                                         *)

\* The file a worker writes: the language of the URL's own query.
WorkerFile(u) == LocalePath(QueryGet(u.query, "language") \o JsonExt)

\* A receive from uriCh that leaves the element in the buffer.
RecvKeep(ch) == ch

\* A receive from uriCh removes the first buffered element.
RecvRest(ch) == Tail(ch)

\* downloadWorker, line 271: receive the next uri; leave the loop, and run
\* the deferred wg.Done(), when the channel is closed and empty.
WorkerRecv(w) ==
    /\ wk[w].pc = "recv"
    /\ IF uriCh # <<>>
       THEN /\ wk' = [wk EXCEPT ![w] = [pc |-> "fetch", uri |-> Head(uriCh),
                                        data |-> <<>>]]
            /\ uriCh' = RecvRest(uriCh)
            /\ recvBy' = [recvBy EXCEPT ![QueryGet(Head(uriCh).query, "language")]
                                            = Append(@, w)]
            /\ UNCHANGED wg
       ELSE /\ closed
            /\ wk' = [wk EXCEPT ![w] = [pc |-> "done", uri |-> NoURL, data |-> <<>>]]
            /\ wg' = wg - 1
            /\ UNCHANGED <<uriCh, recvBy>>
    /\ UNCHANGED <<mainVars, numWorker, spawned, chCap, closed, todo, stdout,
                   logs, fs>>
    /\ UNCHANGED cmdVars
    /\ UNCHANGED fetched

\* A worker that returns after a failed task, running the deferred
\* wg.Done().
ReturnOnFailure(w) ==
    /\ wk' = [wk EXCEPT ![w] = [pc |-> "done", uri |-> NoURL, data |-> <<>>]]
    /\ wg' = wg - 1

\* downloadWorker, lines 276 and 287: continue, the next receive.
Continue(w) ==
    /\ wk' = [wk EXCEPT ![w] = [pc |-> "recv", uri |-> NoURL, data |-> <<>>]]
    /\ UNCHANGED wg

\* downloadWorker, lines 272-277: getTranslation; an error is logged and the
\* task skipped.
WorkerFetch(w) ==
    /\ wk[w].pc = "fetch"
    /\ \E resp \in Responses(wk[w].uri) :
        LET r == getTranslation(resp)
        IN  IF r.err # ""
            THEN /\ logs' = logs \cup {<<"download worker: getting translation",
                                         r.err, WorkerFile(wk[w].uri)>>}
                 /\ Continue(w)
            ELSE /\ wk' = [wk EXCEPT ![w].pc = "write", ![w].data = r.data]
                 /\ UNCHANGED <<logs, wg>>
    /\ fetched' = [fetched EXCEPT ![QueryGet(wk[w].uri.query, "language")] = @ + 1]
    /\ UNCHANGED <<mainVars, numWorker, spawned, uriCh, chCap, closed, todo,
                   recvBy, stdout, fs>>
    /\ UNCHANGED cmdVars

\* downloadWorker, lines 279-290: os.WriteFile; an error is logged and the
\* task skipped, a written file's name is printed.
WorkerWrite(w) ==
    /\ wk[w].pc = "write"
    /\ LET name == WorkerFile(wk[w].uri)
       IN  \E ok \in BOOLEAN :
            IF ok
            THEN /\ fs' = FsPut(name, [kind |-> "raw", ks |-> {}, data |-> wk[w].data])
                 /\ stdout' = Append(stdout, name)
                 /\ wk' = [wk EXCEPT ![w] = [pc |-> "recv", uri |-> NoURL,
                                             data |-> <<>>]]
                 /\ UNCHANGED <<logs, wg>>
            ELSE /\ logs' = logs \cup {<<"download worker: writing file",
                                         "write", name>>}
                 /\ Continue(w)
                 /\ UNCHANGED <<fs, stdout>>
    /\ UNCHANGED <<mainVars, numWorker, spawned, uriCh, chCap, closed, todo,
                   recvBy>>
    /\ UNCHANGED cmdVars
    /\ UNCHANGED fetched

----------------------------------------------------------------------------
(* Locale files.                                                           *)

L_a == <<97>>
L_ab == <<97, 98>>
L_b == <<98>>
L_zz == <<122, 122>>
\* "blocking_mode_refused"
L_refused ==
    <<98, 108, 111, 99, 107, 105, 110, 103, 95, 109, 111, 100, 101, 95, 114,
      101, 102, 117, 115, 101, 100>>
\* "blocking_mode_nxdomain"
L_nxdomain ==
    <<98, 108, 111, 99, 107, 105, 110, 103, 95, 109, 111, 100, 101, 95, 110,
      120, 100, 111, 109, 97, 105, 110>>
\* "blocking_mode_custom_ip"
L_custom_ip ==
    <<98, 108, 111, 99, 107, 105, 110, 103, 95, 109, 111, 100, 101, 95, 99,
      117, 115, 116, 111, 109, 95, 105, 112>>

\* removeUnused's knownUsed.
knownUsed == {L_refused, L_nxdomain, L_custom_ip}

\* The text labels that occur in the base locale file, and those that occur
\* in the locale file of another language.
BaseLabels == {L_a, L_ab, L_b, L_refused}
LangLabels == {L_a, L_zz}

\* A file that cannot be read, a file that is not a JSON object of strings,
\* and the JSON objects with the keys ks.
Unreadable == [kind |-> "unreadable", ks |-> {}]
BadJSON == [kind |-> "badjson", ks |-> {}]
JSONObject(ks) == [kind |-> "json", ks |-> ks]

\* The contents of en.json, and of another language's file, as tried.
BaseFiles ==
    {Unreadable, BadJSON}
    \cup {JSONObject(ks) : ks \in {S \in SUBSET BaseLabels : Cardinality(S) <= MaxLabels}}
LangFiles ==
    {Unreadable, BadJSON}
    \cup {JSONObject(ks) : ks \in {S \in SUBSET LangLabels : Cardinality(S) <= MaxLabels}}

\* readLocales on the content of the file: the map or the error.
readLocales(f) ==
    IF f.kind = "unreadable" THEN [err |-> "read file"]
    ELSE IF f.kind # "json" THEN [err |-> "unmarshalling"]
    ELSE [err |-> "", loc |-> [k \in f.ks |-> "text"]]

----------------------------------------------------------------------------
(* summary.                                                                *)

\* The percentage of the keys of loc that are keys of base.
PercentMatching(loc_, base) ==
    LET n == Cardinality(DOMAIN loc_ \cap DOMAIN base)
        size == Cardinality(DOMAIN base)
    IN  IF size = 0 THEN [kind |-> IF n = 0 THEN "NaN" ELSE "+Inf", hundredths |-> 0]
        ELSE [kind |-> "num", hundredths |-> (2 * n * 10000 + size) \div (2 * size)]

\* float64(len(loc)) * 100 / size printed with %6.2f: the quotient rounded
\* to hundredths; a division by zero gives NaN or +Inf.
Percent(loc_, base) ==
    LET n == Cardinality(DOMAIN loc_)
        size == Cardinality(DOMAIN base)
    IN  IF size = 0 THEN [kind |-> IF n = 0 THEN "NaN" ELSE "+Inf", hundredths |-> 0]
        ELSE [kind |-> "num", hundredths |-> (2 * n * 10000 + size) \div (2 * size)]

\* slices.Sort(maps.Keys(langs)).
LangKeys(l) == SortedKeys(DOMAIN l)

\* summary, lines 189-198: the base file and the sorted language codes.
SummaryStart ==
    /\ pc = "summary"
    /\ \E f \in BaseFiles :
        LET r == readLocales(f)
        IN  /\ fs' = FsPut(basePath, f)
            /\ IF r.err # ""
               THEN /\ Panic("summary")
                    /\ UNCHANGED <<baseLoc, keys, kidx>>
               ELSE /\ baseLoc' = r.loc
                    /\ keys' = LangKeys(langs)
                    /\ kidx' = 1
                    /\ pc' = "summaryLoop"
                    /\ UNCHANGED <<exitCode, fatal>>
    /\ UNCHANGED <<args, ran, envURI, envProject, confFile, uri, projectID, langs,
                   dlVars, baseLang, posted, unVars, stdout, logs>>

\* summary, lines 200-215: one iteration over keys.  The base file is
\* skipped; a language file that cannot be read ends summary with an error.
SummaryStep ==
    /\ pc = "summaryLoop"
    /\ kidx <= Len(keys)
    /\ LET lang == keys[kidx]
           name == LocalePath(lang \o JsonExt)
       IN  IF name = basePath
           THEN /\ kidx' = kidx + 1
                /\ UNCHANGED <<pc, exitCode, fatal, stdout, fs>>
           ELSE \E f \in LangFiles :
                LET r == readLocales(f)
                IN  /\ fs' = FsPut(name, f)
                    /\ IF r.err # ""
                       THEN /\ Panic("summary: reading locales")
                            /\ UNCHANGED <<kidx, stdout>>
                       ELSE /\ stdout' = Append(stdout,
                                   [lang |-> lang, pct |-> Percent(r.loc, baseLoc)])
                            /\ kidx' = kidx + 1
                            /\ UNCHANGED <<pc, exitCode, fatal>>
    /\ UNCHANGED <<args, ran, envURI, envProject, confFile, uri, projectID, langs,
                   dlVars, baseLang, posted, baseLoc, keys, unVars, logs>>

\* summary, line 217 and main, lines 76-77: summary returns nil.
SummaryDone ==
    /\ pc = "summaryLoop"
    /\ kidx > Len(keys)
    /\ Return
    /\ UNCHANGED <<args, ran, envURI, envProject, confFile, fatal, uri, projectID,
                   langs, dlVars, cmdVars, stdout, logs, fs>>

----------------------------------------------------------------------------
(* unused.                                                                 *)

\* The paths filepath.Walk(srcDir) may visit: "a.js", "b.json", "c.md" and
\* the directory "dir" in srcDir, and "en.json" in the locales directory.
W_a == Join(srcDir, <<97>> \o JsExt)
W_b == Join(srcDir, <<98>> \o JsonExt)
W_c == Join(srcDir, <<99>> \o MdExt)
W_dir == Join(srcDir, <<100, 105, 114>>)
W_en == Join(localesDir, defaultBaseFile)

WalkNames == {W_a, W_b, W_c, W_dir, W_en}

\* info.IsDir() of a visited path.
IsDir(name) == name = W_dir

\* The contents of a source file as tried: unreadable, or some bytes.
SrcFiles ==
    {[kind |-> "unreadable", data |-> <<>>]}
    \cup {[kind |-> "bytes", data |-> d] : d \in {L_a, L_ab, <<98, 97>>}}

\* filepath.Clean(localesDir).
locDir == Clean(localesDir)

\* The callback without its check of the error.
KeptDespiteError(name, err) ==
    /\ ~IsDir(name)
    /\ ~HasPrefix(name, locDir)
    /\ Ext(name) \in {JsExt, JsonExt}

\* The callback of filepath.Walk, lines 353-374: whether the path is
\* appended to fileNames.
Kept(name, err) ==
    /\ ~err
    /\ ~IsDir(name)
    /\ ~HasPrefix(name, locDir)
    /\ Ext(name) \in {JsExt, JsonExt}

\* unused, lines 344-351: the base file.
UnusedStart ==
    /\ pc = "unused"
    /\ \E f \in BaseFiles :
        LET r == readLocales(f)
        IN  /\ fs' = FsPut(basePath, f)
            /\ IF r.err # ""
               THEN /\ Panic("unused")
                    /\ UNCHANGED baseLoc
               ELSE /\ baseLoc' = r.loc
                    /\ pc' = "walk"
                    /\ UNCHANGED <<exitCode, fatal>>
    /\ UNCHANGED <<args, ran, envURI, envProject, confFile, uri, projectID, langs,
                   dlVars, baseLang, posted, sumVars, unVars, stdout, logs>>

\* unused, lines 353-374: filepath.Walk visits one more path and calls the
\* callback, with an error if the path cannot be accessed.
WalkVisit ==
    /\ pc = "walk"
    /\ Cardinality(walked) < MaxWalk
    /\ \E name \in WalkNames \ walked, err \in BOOLEAN :
        /\ walked' = walked \cup {name}
        /\ logs' = IF err THEN logs \cup {<<"accessing a path", "walk", name>>}
                   ELSE logs
        /\ fileNames' = IF Kept(name, err) THEN Append(fileNames, name)
                        ELSE fileNames
    /\ UNCHANGED <<mainVars, dlVars, baseLang, posted, baseLoc, sumVars, loc,
                   fidx, buf, iter, stdout, fs>>

\* delete(loc, v) for every v of ks.
DeleteAll(m, ks) == [k \in DOMAIN m \ ks |-> m[k]]

\* unused, lines 376-380 and removeUnused, lines 386-394: the walk is over,
\* its callback having returned no error; the known used labels are
\* deleted.
WalkEnd ==
    /\ pc = "walk"
    /\ loc' = DeleteAll(baseLoc, knownUsed)
    /\ fidx' = 1
    /\ pc' = "scan"
    /\ UNCHANGED <<args, ran, envURI, envProject, confFile, exitCode, fatal, uri,
                   projectID, langs, dlVars, baseLang, posted, baseLoc, sumVars,
                   walked, fileNames, buf, iter, stdout, logs, fs>>

\* removeUnused, lines 396-402: the next file is read; a file that cannot
\* be read ends removeUnused, unused and main with the error.
ScanFile ==
    /\ pc = "scan"
    /\ fidx <= Len(fileNames)
    /\ \E f \in SrcFiles :
        /\ fs' = FsPut(fileNames[fidx], f)
        /\ IF f.kind = "unreadable"
           THEN /\ Panic("removing unused")
                /\ UNCHANGED <<buf, iter, fidx>>
           ELSE /\ buf' = f.data
                /\ iter' = DOMAIN loc
                /\ pc' = IF DOMAIN loc = {} THEN "scan" ELSE "range"
                /\ fidx' = IF DOMAIN loc = {} THEN fidx + 1 ELSE fidx
                /\ UNCHANGED <<exitCode, fatal>>
    /\ UNCHANGED <<args, ran, envURI, envProject, confFile, uri, projectID, langs,
                   dlVars, baseLang, posted, baseLoc, sumVars, walked, fileNames,
                   loc, stdout, logs>>

\* Whether a label counts as used by a buffer when only a whole-buffer match
\* counts.
UsedInWhole(b, k) == b = k

\* removeUnused, line 405: whether the label occurs in the buffer.
UsedIn(b, k) == Contains(b, k)

\* removeUnused, lines 404-408: the range over loc produces one more key, in
\* any order; a key the file contains is deleted.
RangeStep ==
    /\ pc = "range"
    /\ \E k \in iter :
        /\ loc' = IF UsedIn(buf, k) THEN DeleteAll(loc, {k}) ELSE loc
        /\ iter' = iter \ {k}
        /\ pc' = IF iter \ {k} = {} THEN "scan" ELSE "range"
        /\ fidx' = IF iter \ {k} = {} THEN fidx + 1 ELSE fidx
    /\ UNCHANGED <<args, ran, envURI, envProject, confFile, exitCode, fatal, uri,
                   projectID, langs, dlVars, baseLang, posted, baseLoc, sumVars,
                   walked, fileNames, buf, stdout, logs, fs>>

\* printUnused: the keys of the map, sorted, one per line.
printUnused(m) == stdout \o SortedKeys(DOMAIN m)

\* removeUnused, lines 411-413, unused, line 382 and main, lines 82-83: the
\* unused labels are printed and nil is returned.
ScanDone ==
    /\ pc = "scan"
    /\ fidx > Len(fileNames)
    /\ stdout' = printUnused(loc)
    /\ Return
    /\ UNCHANGED <<args, ran, envURI, envProject, confFile, fatal, uri, projectID,
                   langs, dlVars, cmdVars, logs, fs>>

----------------------------------------------------------------------------
(* upload.                                                                 *)

\* What the service may answer to the POST.
PostResponses ==
    {[neterr |-> TRUE, status |-> 0, closeErr |-> FALSE]}
    \cup {[neterr |-> FALSE, status |-> st, closeErr |-> ce] :
            st \in {StatusOK, 500}, ce \in BOOLEAN}

\* upload, lines 428-464, and main, lines 85-86: the base file is posted
\* for the language of UPLOAD_LANGUAGE or, if that is unset, for the base
\* language of the configuration.
Upload ==
    /\ pc = "upload"
    /\ \E langStr \in {<<>>, B_zh}, f \in BaseFiles :
        LET lang == IF langStr # <<>> THEN langStr ELSE baseLang
            u == translationURL(JoinPath(uri, "upload"), defaultBaseFile,
                                projectID, lang)
        IN  /\ fs' = FsPut(basePath, f)
            /\ IF f.kind = "unreadable"
               THEN /\ Panic("upload")
                    /\ UNCHANGED posted
               ELSE \E resp \in PostResponses :
                    /\ posted' = Append(posted, [url |-> u, body |-> f])
                    /\ IF resp.neterr THEN Panic("upload: client post")
                       ELSE IF resp.status # StatusOK THEN Panic("status code is not ok")
                       ELSE IF resp.closeErr THEN Panic("deferred: close")
                       ELSE Return /\ UNCHANGED fatal
    /\ UNCHANGED <<args, ran, envURI, envProject, confFile, uri, projectID, langs,
                   dlVars, baseLang, baseLoc, sumVars, unVars, stdout, logs>>

----------------------------------------------------------------------------

Next ==
    \/ MainNoArgs
    \/ MainHelp
    \/ MainEnv
    \/ MainConf
    \/ DownloadStart
    \/ DownloadSpawn
    \/ DownloadEnqueue
    \/ DownloadClose
    \/ DownloadWait
    \/ \E w \in Workers : WorkerRecv(w)
    \/ \E w \in Workers : WorkerFetch(w)
    \/ \E w \in Workers : WorkerWrite(w)
    \/ SummaryStart
    \/ SummaryStep
    \/ SummaryDone
    \/ UnusedStart
    \/ WalkVisit
    \/ WalkEnd
    \/ ScanFile
    \/ RangeStep
    \/ ScanDone
    \/ Upload

Spec == Init /\ [][Next]_vars

\* Every step of a goroutine that can run is eventually taken, and every
\* fetch and file write ends.
FairSpec == Spec /\ WF_vars(Next)

----------------------------------------------------------------------------
(* Properties of download.                                                 *)

\* The locale file of a language code.
LocaleFile(c) == LocalePath(c \o JsonExt)

\* The language code of a task.
TaskLang(u) == QueryGet(u.query, "language")

\* download has returned to main.
Returned == pc = "exited" /\ ran = "download" /\ closed

\* download is past its flag handling, with workers to start or started.
Downloading == ran = "download" /\ pc # "download" /\ numWorker >= 1

\* The locale file of the language has been written by a worker.
Written(c) == LocaleFile(c) \in DOMAIN fs /\ fs[LocaleFile(c)].kind = "raw"

\* A failure of the language's task has been logged.
Failed(c) == \E e \in logs : e[3] = LocaleFile(c)

\* The number of tasks for a language that are in the channel.
Queued(c) == Cardinality({i \in DOMAIN uriCh : TaskLang(uriCh[i]) = c})

\* C1: each configured language has exactly one task, which is at any time
\* either still to be enqueued, in the channel, or received by exactly one
\* worker; it is fetched at most once, and exactly once by the time download
\* returns; no language outside the configuration is fetched; and no two
\* workers hold the same task or write the same locale file.
C1_EachTaskOnce ==
    /\ \A c \in LangCodes :
        /\ Len(recvBy[c]) <= 1
        /\ fetched[c] <= Len(recvBy[c])
        /\ c \notin DOMAIN langs => recvBy[c] = <<>>
    /\ Downloading =>
        \A c \in DOMAIN langs :
            (IF c \in todo THEN 1 ELSE 0) + Queued(c) + Len(recvBy[c]) = 1
    /\ \A w1, w2 \in Workers :
        (/\ w1 # w2
         /\ wk[w1].pc \in {"fetch", "write"}
         /\ wk[w2].pc \in {"fetch", "write"})
        => /\ wk[w1].uri # wk[w2].uri
           /\ WorkerFile(wk[w1].uri) # WorkerFile(wk[w2].uri)
    /\ Returned => \A c \in DOMAIN langs : Len(recvBy[c]) = 1 /\ fetched[c] = 1

\* Two languages were downloaded by two workers, one each.
C1_Witness ==
    /\ Returned
    /\ numWorker = 2
    /\ \E c1, c2 \in DOMAIN langs :
        /\ c1 # c2
        /\ recvBy[c1] = <<1>>
        /\ recvBy[c2] = <<2>>

\* C2: a worker leaves its loop only when the channel is closed and empty,
\* never because a task failed; and when download returns, main ends
\* without an error and every language whose task logged no failure has its
\* locale file written.
C2_FailuresAreSkipped ==
    /\ \A w \in Workers : wk[w].pc = "done" => closed /\ uriCh = <<>>
    /\ Returned =>
        /\ exitCode = 0
        /\ fatal = ""
        /\ \A c \in DOMAIN langs : ~Failed(c) => Written(c)

\* One worker had a task fail and wrote the file of another language.
C2_Witness ==
    /\ Returned
    /\ numWorker = 1
    /\ \E c1, c2 \in DOMAIN langs : c1 # c2 /\ Failed(c1) /\ ~Written(c1) /\ Written(c2)

\* C3: when download returns, the channel is closed and empty, every
\* started worker has left its loop, no worker is fetching or writing, and
\* every language is written or has a failure logged.
C3_ReturnsAfterWorkers ==
    Returned =>
        /\ uriCh = <<>>
        /\ todo = {}
        /\ wg = 0
        /\ spawned = numWorker
        /\ \A w \in Workers : wk[w].pc = IF w <= numWorker THEN "done" ELSE "idle"
        /\ \A c \in DOMAIN langs : Written(c) \/ Failed(c)

\* download returned after two workers handled two languages.
C3_Witness ==
    /\ Returned
    /\ numWorker = 2
    /\ Cardinality(DOMAIN langs) = 2
    /\ \A w \in {1, 2} : wk[w].pc = "done"

----------------------------------------------------------------------------
(* Properties of main and of the flag handling of download.                *)

\* The command line is "download -n k" with k < 1.
NonPositiveCount ==
    /\ Len(args) = 3
    /\ args[1] = "download"
    /\ args[2] = "-n"
    /\ ParseInt(args[3]).err = ""
    /\ ParseInt(args[3]).val < 1

\* No worker was started, no task enqueued, no request made, no file
\* written.
NothingStarted ==
    /\ spawned = 0
    /\ wg = 0
    /\ \A w \in Workers : wk[w].pc = "idle"
    /\ uriCh = <<>>
    /\ ~closed
    /\ \A c \in LangCodes : recvBy[c] = <<>> /\ fetched[c] = 0
    /\ fs = NoFiles
    /\ logs = {}

\* C4: with "download -n k", k < 1, no worker is ever started, no task
\* enqueued, no request made and no file written; and once download has
\* handled its flags, the only output is the usage error about the count
\* and the process has exited with code 1.
C4_NonPositiveCount ==
    NonPositiveCount =>
        /\ NothingStarted
        /\ (ran = "download" /\ pc # "download") =>
            /\ pc = "exited"
            /\ exitCode = 1
            /\ stdout = <<[usage |-> "count must be positive"]>>

\* download was called with -n 0 and has exited.
C4_Witness ==
    /\ args = <<"download", "-n", "0">>
    /\ ran = "download"
    /\ pc = "exited"
    /\ exitCode = 1

\* The configuration file holds the empty array.
EmptyConfArray == confFile.kind = "array" /\ Len(confFile.tsc) = 0

\* The first element of the configuration has no languages.
EmptyLangList ==
    /\ confFile.kind = "array"
    /\ Len(confFile.tsc) > 0
    /\ DOMAIN confFile.tsc[1].Languages = {}

\* The first element of the configuration has a language whose display name
\* is empty.
EmptyLangName ==
    /\ confFile.kind = "array"
    /\ Len(confFile.tsc) > 0
    /\ \E c \in DOMAIN confFile.tsc[1].Languages : confFile.tsc[1].Languages[c] = ""

\* main has read the configuration file.
ConfRead == pc \notin {"main", "conf"} /\ fatal # "parse" /\ Len(args) > 0 /\ args[1] # "help"

\* C5 as stated: with an empty configuration array, or an empty language
\* list in its first element, no command is executed.
C5_AsStated == (EmptyConfArray \/ EmptyLangList) => ran = ""

\* C5: with an empty configuration array, or a language with an empty
\* display name in its first element, no command is executed, and main
\* panics once it has read the configuration.
C5_EmptyConfAborts ==
    (EmptyConfArray \/ EmptyLangName) =>
        /\ ran = ""
        /\ pc \in {"main", "conf", "exited"}
        /\ ConfRead =>
            /\ exitCode = 2
            /\ fatal = IF EmptyConfArray THEN "is empty" ELSE "language is empty"
            /\ stdout = <<>>

\* main panicked on a configuration whose first element has a language with
\* an empty display name.
C5_Witness ==
    /\ EmptyLangName
    /\ args = <<"summary">>
    /\ pc = "exited"
    /\ exitCode = 2
    /\ fatal = "language is empty"

\* There is no first argument, or it names no command.
NoCommand == Len(args) = 0 \/ args[1] \notin Commands \cup {"help"}

\* TWOSKY_URI parses and the configuration file is accepted.
EnvAccepted ==
    /\ ParseURL(IF envURI = "" THEN twoskyURI ELSE envURI).err = ""
    /\ readTwoskyConf(confFile).err = ""

\* C9 as stated: without a command, the process ends with a usage error and
\* exit code 1.
C9_AsStated ==
    (NoCommand /\ pc = "exited") =>
        /\ exitCode = 1
        /\ Len(stdout) = 1
        /\ stdout[1].usage # ""

\* C9: without a command no command body runs; with no argument at all, and
\* with an unknown first argument when TWOSKY_URI parses and the
\* configuration is accepted, the process ends with a usage error and exit
\* code 1; with an unknown first argument otherwise, main panics.
C9_NoCommand ==
    NoCommand =>
        /\ ran = ""
        /\ pc \in {"main", "conf", "exited"}
        /\ pc = "exited" =>
            IF Len(args) = 0 \/ EnvAccepted
            THEN /\ exitCode = 1
                 /\ fatal = ""
                 /\ stdout = <<[usage |-> IF Len(args) = 0 THEN "need a command"
                                          ELSE "unknown command"]>>
            ELSE /\ exitCode = 2
                 /\ fatal # ""
                 /\ stdout = <<>>

\* An unknown command ended in the usage error.
C9_Witness ==
    /\ args = <<"bogus">>
    /\ pc = "exited"
    /\ exitCode = 1
    /\ stdout = <<[usage |-> "unknown command"]>>

----------------------------------------------------------------------------
(* Properties of unused.                                                   *)

\* unused has ended, main with it.
UnusedEnded == ran = "unused" /\ pc = "exited"

\* The elements of a sequence.
Range(q) == {q[i] : i \in DOMAIN q}

\* The sequence has no element twice and ascends in the order of Go's <.
Ascending(q) == \A i, j \in DOMAIN q : i < j => StrLess(q[i], q[j])

\* The labels of the base file that are not known as used and occur in none
\* of the files of fileNames, by the contents of the files.
UnusedLabels ==
    {k \in fs[basePath].ks \ knownUsed :
        \A i \in DOMAIN fileNames : ~Contains(fs[fileNames[i]].data, k)}

\* C6: when unused ends without an error, it has printed exactly the labels
\* of the base file that are not in the fixed list and occur in no scanned
\* file, each once, in ascending order.
C6_PrintsUnused ==
    (UnusedEnded /\ exitCode = 0) =>
        /\ Range(stdout) = UnusedLabels
        /\ Ascending(stdout)

\* The base file has the labels "a", "b" and a known used one, the only
\* scanned file holds "a", and "b" is printed.
C6_Witness ==
    /\ UnusedEnded
    /\ exitCode = 0
    /\ fs[basePath].ks = {L_a, L_b, L_refused}
    /\ fileNames = <<W_a>>
    /\ fs[W_a].data = L_a
    /\ stdout = <<L_b>>

\* The paths whose visit was logged as failed.
WalkErrors == {e[3] : e \in {x \in logs : x[1] = "accessing a path"}}

\* The base file was read and parsed.
BaseRead == basePath \in DOMAIN fs /\ readLocales(fs[basePath]).err = ""

\* A kept file was found unreadable.
ScanFailed ==
    \E i \in DOMAIN fileNames :
        fileNames[i] \in DOMAIN fs /\ fs[fileNames[i]].kind = "unreadable"

\* C7 as stated: once the base file is read, every per-file error is
\* skipped, so unused ends with the unused labels printed and no error.
C7_AsStated == (UnusedEnded /\ BaseRead) => exitCode = 0

\* C7: a path the walk cannot access is logged and skipped, it is not
\* scanned and the walk goes on; a kept file that cannot be read ends the
\* command with a panic and nothing printed; unused ends without an error
\* exactly when the base file and every kept file are readable.
C7_WalkErrorsSkipped ==
    ran = "unused" =>
        /\ WalkErrors \subseteq walked
        /\ WalkErrors \cap Range(fileNames) = {}
        /\ (UnusedEnded /\ BaseRead) =>
            IF ScanFailed
            THEN exitCode = 2 /\ fatal = "removing unused" /\ stdout = <<>>
            ELSE exitCode = 0 /\ fatal = "" /\ Range(stdout) = UnusedLabels

\* The walk could not access one path, kept another, and the unused labels
\* were printed.
C7_Witness ==
    /\ UnusedEnded
    /\ exitCode = 0
    /\ WalkErrors = {W_a}
    /\ fileNames = <<W_b>>
    /\ stdout # <<>>

----------------------------------------------------------------------------
(* Properties of summary.                                                  *)

\* summary has ended, main with it.
SummaryEnded == ran = "summary" /\ pc = "exited"

\* The number of keys of the file of a language.
KeyCount(path) == Cardinality(fs[path].ks)

\* The printed value is the quotient 100 * n / size rounded to hundredths,
\* or what a division by zero yields.
IsPercentOf(p, n, size) ==
    IF size > 0
    THEN /\ p.kind = "num"
         /\ 2 * (p.hundredths * size - 10000 * n) <= size
         /\ 2 * (10000 * n - p.hundredths * size) <= size
    ELSE p.kind = IF n = 0 THEN "NaN" ELSE "+Inf"

\* C8: when summary ends without an error, it has printed one line for each
\* configured language other than "en", none for "en", in ascending order
\* of the codes, and the value of a line is 100 times the number of keys of
\* the language's file divided by the number of keys of en.json.
C8_SummaryLines ==
    (SummaryEnded /\ exitCode = 0) =>
        /\ {stdout[i].lang : i \in DOMAIN stdout} = DOMAIN langs \ {B_en}
        /\ \A i, j \in DOMAIN stdout : i < j => StrLess(stdout[i].lang, stdout[j].lang)
        /\ \A i \in DOMAIN stdout :
            IsPercentOf(stdout[i].pct, KeyCount(LocaleFile(stdout[i].lang)),
                        KeyCount(basePath))

\* Two lines were printed, in order, one of them for a file with a key the
\* base file does not have.
C8_Witness ==
    /\ SummaryEnded
    /\ exitCode = 0
    /\ fs[basePath].ks = {L_a, L_ab, L_b}
    /\ Len(stdout) = 2
    /\ stdout[1].lang = B_de
    /\ stdout[2].lang = B_ru
    /\ fs[LocaleFile(B_de)].ks = {L_zz}
    /\ stdout[1].pct = [kind |-> "num", hundredths |-> 3333]

----------------------------------------------------------------------------
(* Termination of download.                                                *)

\* The send of download's loop can proceed.
ProducerCanSend == (pc = "enqueue" /\ todo # {}) => Len(uriCh) < chCap

\* C10: the channel has room for every language, so the send in download
\* never blocks; and once download has handled its flags, with at least one
\* worker, it eventually returns, all workers having left their loops.
C10_DownloadTerminates ==
    /\ [](Downloading => chCap = Cardinality(DOMAIN langs) /\ ProducerCanSend)
    /\ (Downloading ~> (Returned /\ \A w \in Workers : wk[w].pc \in {"idle", "done"}))

\* Every task is in the channel, which is full, and no worker has taken
\* one yet.
C10_Witness ==
    /\ Downloading
    /\ pc = "enqueue"
    /\ chCap = 2
    /\ Len(uriCh) = 2
    /\ numWorker = 2

====
